---- MODULE Spec2Model ----
(***************************************************************************)
(* Model of flare/analytics/command_control.py (class elasticBeacon):      *)
(* run_query builds the triad index, find_beacons puts the candidate       *)
(* triad ids on q_job and starts NUM_PROCESSES workers that each run       *)
(* find_beacon, which scores a triad with percent_grouping and appends a   *)
(* row to the shared beacon_list; after the joins find_beacons builds the  *)
(* table and the report.                                                   *)
(*                                                                         *)
(* The specifications share the variables:                                 *)
(*   Spec     the pipeline (run_query, find_beacons, the workers);         *)
(*   EstSpec  percent_grouping alone, applied to bounded histograms.       *)
(* A third, RepeatSpec, is the pipeline with repeated calls of             *)
(* find_beacons on one instance.                                           *)
(***************************************************************************)
EXTENDS Integers, Sequences, FiniteSets, TLC

VARIABLES
    main_pc,      \* position of the main process
    resp,         \* the records the flow data source returned (helpers.scan)
    flow_data,    \* self.flow_data: the rows of df, with triad_id and triad_freq
    high_freq,    \* self.high_freq: the candidate triad ids
    q_job,        \* self.q_job: the triad ids waiting on the JoinableQueue
    unfinished,   \* the JoinableQueue's count of tasks not yet task_done()
    l_df,         \* self.l_df: 0 when free, else the worker holding it
    l_list,       \* self.l_list: 0 when free, else the worker holding it
    beacon_list,  \* the Manager list shared by the workers
    pc,           \* pc[w]: position of worker w in find_beacon
    loc,          \* loc[w]: the local variables of worker w
    taken,        \* history: taken[k] = the workers that dequeued triad id k
    report,       \* what find_beacons hands back after the join
    fields,       \* self.fields: the columns of the report
    csv_file,     \* what to_csv(csv_out) wrote
    history,      \* history: the flags and the outcome of every call of
                  \* find_beacons that has ended
    WINDOW,       \* self.WINDOW
    key_order,    \* the order in which a dict lists its integer keys
    est_d,        \* EstSpec: the histogram d handed to percent_grouping
    est_n,        \* EstSpec: the number of deltas counted into est_d
    est_ks,       \* EstSpec: the order in which d.keys() delivered the keys
    est_out,      \* EstSpec: what percent_grouping returned
    est_pc        \* EstSpec: "feed" while the histogram is built, then "done"

vars == <<main_pc, resp, flow_data, high_freq, q_job, unfinished, l_df, l_list,
          beacon_list, pc, loc, taken, report, fields, csv_file, history,
          WINDOW, key_order, est_d, est_n, est_ks, est_out, est_pc>>

pipe_vars == <<main_pc, resp, flow_data, high_freq, q_job, unfinished, l_df,
               l_list, beacon_list, pc, loc, taken, report, fields, csv_file,
               history>>

est_vars == <<est_d, est_n, est_ks, est_out, est_pc>>

(***************************************************************************)
(* Configuration (the defaults of __init__) and the bounds of the model.   *)
(***************************************************************************)
MIN_OCCURANCES == 10
MIN_PERCENT == 5
DEFAULT_WINDOW == 2

\* Number of worker processes of the model (threads=8 by default).
NUM_PROCESSES == 2
\* EstSpec: the widest WINDOW, the most deltas and the most distinct delta
\* values of a histogram.
MaxWindow == 3
MaxDeltas == 7
MaxKeys == 4
\* RepeatSpec: the most calls of find_beacons on one instance.
MaxCalls == 2

Workers == 1..NUM_PROCESSES

(***************************************************************************)
(* Generic helpers.                                                        *)
(***************************************************************************)
Range(s) == {s[i] : i \in DOMAIN s}

RECURSIVE SumOver(_, _)
SumOver(f, S) ==
    IF S = {} THEN 0
    ELSE LET x == CHOOSE y \in S : TRUE IN f[x] + SumOver(f, S \ {x})

RECURSIVE Gcd(_, _)
Gcd(a, b) == IF b = 0 THEN a ELSE Gcd(b, a % b)

\* A float that is the quotient of two integers, kept exact as <<num, den>>
\* in lowest terms with den > 0; 0.0 is <<0, 1>>.
Rat(n, d) == LET g == Gcd(IF n < 0 THEN -n ELSE n, d) IN <<n \div g, d \div g>>
RatGT(p, q) == p[1] * q[2] > q[1] * p[2]
\* int(x) of a non-negative float
RatInt(p) == p[1] \div p[2]

\* int() / astype(int): truncation towards zero of n / d, d > 0
Trunc(n, d) == IF n >= 0 THEN n \div d ELSE -((-n) \div d)

\* All orders in which the elements of the finite set S can be listed.
Perms(S) ==
    {s \in [1..Cardinality(S) -> S] : \A x \in S : \E i \in DOMAIN s : s[i] = x}

(***************************************************************************)
(* percent_grouping(d).  d is a dict from delta (seconds) to count, here a *)
(* function; ks is the order in which d.keys() lists the keys, which the   *)
(* dict does not specify; W is self.WINDOW.                                *)
(***************************************************************************)
\* The state of the first loop before any key.
ScanInit == [mx |-> 0, mx_key |-> 0, total |-> 0]

\* One pass of "for key in d.keys()": total += d[key]; a strictly larger
\* count replaces mx and mx_key.
KeyStep_total_inside_if(acc, d, key) ==
    IF d[key] > acc.mx
    THEN [mx |-> d[key], mx_key |-> key, total |-> acc.total + d[key]]
    ELSE acc

KeyStep_ge(acc, d, key) ==
    IF d[key] >= acc.mx
    THEN [mx |-> d[key], mx_key |-> key, total |-> acc.total + d[key]]
    ELSE [acc EXCEPT !.total = acc.total + d[key]]

KeyStep(acc, d, key) ==
    IF d[key] > acc.mx
    THEN [mx |-> d[key], mx_key |-> key, total |-> acc.total + d[key]]
    ELSE [acc EXCEPT !.total = acc.total + d[key]]

RECURSIVE ScanKeys(_, _, _, _)
ScanKeys(acc, d, ks, n) ==
    IF n > Len(ks) THEN acc
    ELSE ScanKeys(KeyStep(acc, d, ks[n]), d, ks, n + 1)

\* "for j in range(i, i + W): if d.has_key(j): current += d[j]"
WindowCount_inclusive(d, i, W) ==
    SumOver(d, {j \in i..(i + W) : j \in DOMAIN d})

WindowCount(d, i, W) ==
    SumOver(d, {j \in i..(i + W - 1) : j \in DOMAIN d})

\* One pass of "for i in range(mx_key - W, mx_key + 1)": best is
\* [interval, mx_percent]; a strictly larger percent replaces both.
WindowStep_start(best, d, i, W, total) ==
    LET percent == Rat(WindowCount(d, i, W) * 100, total)
    IN  IF RatGT(percent, best.mx_percent)
        THEN [interval |-> i, mx_percent |-> percent]
        ELSE best

WindowStep_ge(best, d, i, W, total) ==
    LET curr_interval == i + (W \div 2)
        percent == Rat(WindowCount(d, i, W) * 100, total)
    IN  IF ~RatGT(best.mx_percent, percent)
        THEN [interval |-> curr_interval, mx_percent |-> percent]
        ELSE best

WindowStep(best, d, i, W, total) ==
    LET curr_interval == i + (W \div 2)
        percent == Rat(WindowCount(d, i, W) * 100, total)
    IN  IF RatGT(percent, best.mx_percent)
        THEN [interval |-> curr_interval, mx_percent |-> percent]
        ELSE best

RECURSIVE SlideWindows(_, _, _, _, _, _)
SlideWindows(best, d, i, last, W, total) ==
    IF i > last THEN best
    ELSE SlideWindows(WindowStep(best, d, i, W, total), d, i + 1, last, W, total)

\* "if our high count interval is less than 10 we don't evaluate"
ShortCircuit(mx_key) == mx_key < 10

\* The pair (interval, mx_percent) that percent_grouping returns.
percent_grouping(d, ks, W) ==
    LET s == ScanKeys(ScanInit, d, ks, 1)
    IN  IF ShortCircuit(s.mx_key)
        THEN <<0, <<0, 1>>>>
        ELSE LET best == SlideWindows([interval |-> 0, mx_percent |-> <<0, 1>>],
                                      d, s.mx_key - W, s.mx_key, W, s.total)
             IN  <<best.interval, best.mx_percent>>

(***************************************************************************)
(* Series.value_counts(): the histogram of a sequence of deltas.  CountOne *)
(* counts one more delta into a histogram.                                 *)
(***************************************************************************)
EmptyDict == [k \in {} |-> 0]

value_counts(deltas) ==
    [k \in Range(deltas) |-> Cardinality({i \in DOMAIN deltas : deltas[i] = k})]

CountOne(d, v) ==
    [k \in DOMAIN d \cup {v} |->
        IF k = v THEN (IF v \in DOMAIN d THEN d[v] + 1 ELSE 1) ELSE d[k]]

(***************************************************************************)
(* EstSpec: percent_grouping on its own.  The histogram is built from      *)
(* deltas drawn from DeltaVals (values below, at and above the threshold   *)
(* of 10, neighbours within a window of each other, one far outlier and a  *)
(* negative delta, which an out-of-order pair of timestamps produces);     *)
(* then percent_grouping is applied under some order of d.keys().          *)
(***************************************************************************)
DeltaVals == {-2, 9, 10, 29, 30, 31, 300}

ParkedPipeline ==
    /\ main_pc = "unused"
    /\ resp = <<>>
    /\ flow_data = <<>>
    /\ high_freq = <<>>
    /\ q_job = <<>>
    /\ unfinished = 0
    /\ l_df = 0
    /\ l_list = 0
    /\ beacon_list = <<>>
    /\ pc = [w \in Workers |-> "unused"]
    /\ loc = [w \in Workers |-> <<>>]
    /\ taken = EmptyDict
    /\ report = <<>>
    /\ fields = <<>>
    /\ csv_file = <<>>
    /\ history = <<>>
    /\ key_order = "unused"

ParkedEstimator ==
    /\ est_d = EmptyDict
    /\ est_n = 0
    /\ est_ks = <<>>
    /\ est_out = <<0, <<0, 1>>>>
    /\ est_pc = "unused"

EstInit ==
    /\ ParkedPipeline
    /\ WINDOW \in 0..MaxWindow
    /\ est_d = EmptyDict
    /\ est_n = 0
    /\ est_ks = <<>>
    /\ est_out = <<0, <<0, 1>>>>
    /\ est_pc = "feed"

\* One more delta is counted into the histogram (value_counts).
EstFeed(v) ==
    /\ est_pc = "feed"
    /\ est_n < MaxDeltas
    /\ Cardinality(DOMAIN est_d \cup {v}) <= MaxKeys
    /\ est_d' = CountOne(est_d, v)
    /\ est_n' = est_n + 1
    /\ UNCHANGED <<est_ks, est_out, est_pc, WINDOW, key_order, pipe_vars>>

\* window, percent = self.percent_grouping(d)
EstGroup ==
    /\ est_pc = "feed"
    /\ \E ks \in Perms(DOMAIN est_d) :
          /\ est_ks' = ks
          /\ est_out' = percent_grouping(est_d, ks, WINDOW)
    /\ est_pc' = "done"
    /\ UNCHANGED <<est_d, est_n, WINDOW, key_order, pipe_vars>>

EstNext == (\E v \in DeltaVals : EstFeed(v)) \/ EstGroup

EstSpec == EstInit /\ [][EstNext]_vars

\* ---- properties of percent_grouping (checked under EstSpec) ----

\* The delta value that the first loop ends with as mx_key, stated without
\* the loop: the first key, in the order of d.keys(), whose count is the
\* largest count; 0 for the empty histogram.
MostFrequentKey(d, ks) ==
    IF ks = <<>> THEN 0
    ELSE LET top == CHOOSE c \in {d[k] : k \in DOMAIN d} :
                        \A k \in DOMAIN d : d[k] <= c
             first == CHOOSE i \in DOMAIN ks :
                        /\ d[ks[i]] = top
                        /\ \A j \in 1..(i - 1) : d[ks[j]] < top
         IN  ks[first]

ScenarioHistogram == (29 :> 1) @@ (30 :> 4) @@ (31 :> 1) @@ (300 :> 1)

ScenarioScored ==
    /\ est_pc = "done"
    /\ est_d = ScenarioHistogram
    /\ WINDOW = 2

\* C4 (as claimed): for the histogram {30:4, 29:1, 31:1, 300:1} and WINDOW=2,
\* percent_grouping returns interval 30 and a percent of about 85.7 (6 of 7),
\* which exceeds MIN_PERCENT.
C4_Original_Percent_6_of_7 ==
    ScenarioScored =>
        /\ est_out[1] = 30
        /\ est_out[2] = Rat(600, 7)
        /\ RatGT(est_out[2], <<MIN_PERCENT, 1>>)

\* C4 (amended): for the histogram {30:4, 29:1, 31:1, 300:1} and WINDOW=2,
\* percent_grouping returns interval 30 and a percent of 500/7, about 71.4
\* (5 of 7: a window is WINDOW = 2 delta values wide, so the best one covers
\* 29..30), which exceeds MIN_PERCENT.
C4_Scenario_Percent_5_of_7 ==
    ScenarioScored =>
        /\ est_out[1] = 30
        /\ est_out[2] = Rat(500, 7)
        /\ RatGT(est_out[2], <<71, 1>>)
        /\ RatGT(<<72, 1>>, est_out[2])
        /\ RatGT(est_out[2], <<MIN_PERCENT, 1>>)

C4_Witness == ScenarioScored /\ est_n = 7 /\ est_out[1] = 30

\* C8: whenever the most frequent delta value (mx_key) is below 10,
\* percent_grouping returns (0, 0.0), whatever else the histogram holds and
\* whatever WINDOW is; the empty histogram included.
C8_ShortCircuit_Below_10 ==
    (est_pc = "done" /\ MostFrequentKey(est_d, est_ks) < 10)
        => est_out = <<0, <<0, 1>>>>

C8_Witness ==
    /\ est_pc = "done"
    /\ MostFrequentKey(est_d, est_ks) = 9
    /\ 30 \in DOMAIN est_d
    /\ 10 \in DOMAIN est_d
    /\ WINDOW = MaxWindow
    /\ est_out = <<0, <<0, 1>>>>

\* C9: the percent that percent_grouping returns lies in [0, 100], and the
\* total it divides by is the number of deltas counted into the histogram.
C9_Percent_In_Range ==
    est_pc = "done" =>
        /\ est_out[2][1] >= 0
        /\ est_out[2][1] <= 100 * est_out[2][2]
        /\ ScanKeys(ScanInit, est_d, est_ks, 1).total = est_n

C9_Witness ==
    /\ est_pc = "done"
    /\ est_n = MaxDeltas
    /\ Cardinality(DOMAIN est_d) >= 3
    /\ est_out[2] = <<100, 1>>

\* The number of deltas of the histogram that lie in i .. i+WINDOW-1.
Covered(i) ==
    SumOver(est_d, {k \in DOMAIN est_d : k >= i /\ k <= i + WINDOW - 1})

\* The lowest start among the windows that cover the most deltas; cov[i] is
\* the number of deltas that the window starting at i covers.
FirstBest(cov) ==
    CHOOSE i \in DOMAIN cov :
        \A j \in DOMAIN cov : cov[j] <= cov[i] /\ (j < i => cov[j] < cov[i])

\* C14: for a most frequent delta of at least 10, percent_grouping returns
\* the window that covers the most deltas among the windows i .. i+WINDOW-1
\* with i = mx_key - WINDOW, ..., mx_key, the one of lowest i when several
\* tie: its interval is i + floor(WINDOW/2) and its percent the share of the
\* deltas it covers.  When no window covers a delta (WINDOW = 0) it returns
\* interval 0 and percent 0.
C14_First_Best_Window_Wins ==
    est_pc = "done" =>
        LET mx_key == MostFrequentKey(est_d, est_ks)
            cov    == [i \in (mx_key - WINDOW)..mx_key |-> Covered(i)]
            first  == FirstBest(cov)
        IN  mx_key >= 10 =>
                est_out = IF cov[first] = 0
                          THEN <<0, <<0, 1>>>>
                          ELSE <<first + (WINDOW \div 2),
                                 Rat(cov[first] * 100, est_n)>>

C14_Witness ==
    /\ est_pc = "done"
    /\ WINDOW = 2
    /\ MostFrequentKey(est_d, est_ks) = 30
    /\ Covered(29) = Covered(30)
    /\ Covered(28) < Covered(29)
    /\ 31 \in DOMAIN est_d
    /\ 29 \in DOMAIN est_d
    /\ est_out[1] = 30

\* All deltas of the histogram are equal to p, and p >= 10.
AllDeltasAre(p) == p >= 10 /\ est_n > 0 /\ DOMAIN est_d = {p}

\* C20 (as claimed): when all deltas are equal to one value p >= 10,
\* percent_grouping returns interval p and percent 100, for every WINDOW >= 1.
C20_Original_Interval_Is_Period ==
    (est_pc = "done" /\ WINDOW >= 1) =>
        \A p \in DOMAIN est_d :
            AllDeltasAre(p) => est_out = <<p, <<100, 1>>>>

\* C20 (amended): when all deltas are equal to one value p >= 10,
\* percent_grouping returns percent 100 for every WINDOW >= 1, and the
\* interval of the first window that holds p, which starts at p - WINDOW + 1:
\* p - WINDOW + 1 + floor(WINDOW/2).  That is p for WINDOW = 1 and WINDOW = 2
\* and less than p for every wider window.
C20_Interval_Of_First_Window_With_Period ==
    (est_pc = "done" /\ WINDOW >= 1) =>
        \A p \in DOMAIN est_d :
            AllDeltasAre(p) =>
                /\ est_out = <<p - WINDOW + 1 + (WINDOW \div 2), <<100, 1>>>>
                /\ WINDOW <= 2 => est_out[1] = p
                /\ WINDOW > 2 => est_out[1] < p

C20_Witness ==
    /\ est_pc = "done"
    /\ WINDOW = 3
    /\ AllDeltasAre(30)
    /\ est_n = MaxDeltas
    /\ est_out = <<29, <<100, 1>>>>

(***************************************************************************)
(* The flow data of the pipeline.  A record of the data source carries     *)
(* src_ip, dest_ip, dest_port (absent in some records), timestamp (in      *)
(* milliseconds, counted from the start of the period) and flow, the       *)
(* bytes_toserver of the flow.  resp is drawn from the data sets below:    *)
(* each of four triads comes with one of a few timestamp patterns.         *)
(***************************************************************************)
T1 == [src_ip |-> "1.1.1.1", dest_ip |-> "2.2.2.2", dest_port |-> 11]
T2 == [src_ip |-> "1.1.1.1", dest_ip |-> "2.2.2.21", dest_port |-> 1]
T3 == [src_ip |-> "10.0.0.5", dest_ip |-> "8.8.8.8"]
T4 == [src_ip |-> "10.0.0.5", dest_ip |-> "8.8.4.4", dest_port |-> 53]
T5 == [src_ip |-> "10.0.0.6", dest_ip |-> "8.8.4.4", dest_port |-> 53]

\* x.get('bytes_toserver') of a flow that has no such entry: Python's None.
\* A byte count is never negative; -1 stands for None.
None == -1

\* n events, one every step milliseconds
Periodic(n, start, step) == [i \in 1..n |-> start + (i - 1) * step]

\* n events whose gaps are 10 s, 13 s, 16 s, ...: no two deltas are equal or
\* within a window of each other
Widening(n) ==
    [i \in 1..n |-> 1000 * (10 * (i - 1) + (3 * (i - 1) * (i - 2)) \div 2)]

\* n events, one every step milliseconds, of which the data source delivers
\* the i-th and the one after it in the opposite order
Swapped(n, start, step, i) ==
    [k \in 1..n |->
        start + ((IF k = i THEN i + 1 ELSE IF k = i + 1 THEN i ELSE k) - 1) * step]

Pattern(name) ==
    CASE name = "none" -> <<>>
      [] name = "p5"   -> Periodic(5, 200, 30000)
      [] name = "p6"   -> Periodic(6, 400000, 30000)
      [] name = "p9"   -> Periodic(9, 200, 30000)
      [] name = "p10"  -> Periodic(10, 0, 30000)
      [] name = "p11"  -> Periodic(11, 700, 30000)
      [] name = "f11"  -> Periodic(11, 100, 1000)
      [] name = "n11"  -> Periodic(11, 300, 30000)
      [] name = "s11"  -> Swapped(11, 500, 30000, 5)
      [] name = "w20"  -> Widening(20)

\* The events of triad t under a pattern; the flows of "n11" carry no
\* bytes_toserver.
Events(t, name) ==
    LET ts == Pattern(name)
    IN  [i \in 1..Len(ts) |->
            t @@ [timestamp |-> ts[i],
                  flow |-> IF name = "n11" THEN None ELSE 100 + i]]

\* T1 and T2 differ in dest_ip and dest_port only; T3 has no dest_port; T3
\* and T4 share their src_ip; T4 and T5 share their dest_ip and dest_port.
\* Every pattern of T1 comes with every pattern of T2, beside T3 or T4 or
\* neither; a few data sets hold three triads that each have enough events.
Datasets ==
    {Events(T1, a) \o Events(T2, b) \o Events(T3, c[1]) \o Events(T4, c[2]) :
        a \in {"none", "p6", "p10", "p11", "w20"},
        b \in {"none", "p5", "p9"},
        c \in {<<"none", "none">>, <<"f11", "none">>, <<"none", "p11">>}}
    \cup
    {Events(T1, a) \o Events(T3, "f11") \o Events(T4, "p11") :
        a \in {"none", "p11"}}
    \cup
    {Events(T1, "p11") \o Events(T4, "p11") \o Events(T5, "p11")}
    \cup
    {Events(T5, f) : f \in {"n11", "s11"}}

\* The data of the client that calls find_beacons more than once.
RepeatDatasets ==
    {Events(T1, a) \o Events(T4, e) :
        a \in {"none", "w20"}, e \in {"none", "p11"}}

(***************************************************************************)
(* run_query: the data frame df built from the records.                    *)
(***************************************************************************)
\* pd.DataFrame(records) has a column for every field some record carries;
\* df['dest_port'] raises KeyError when there is no such column, which is
\* the case of an empty response.
HasColumn(records, field) == \E i \in DOMAIN records : field \in DOMAIN records[i]

\* df['dest_port'].fillna(0).astype(int)
dest_port_filled(rec) == IF "dest_port" \in DOMAIN rec THEN rec.dest_port ELSE 0

\* hash() of a str is a function of its characters alone; the model keeps it
\* one-to-one (the string stands for its hash), so that two rows of the model
\* share a triad_id exactly when the concatenated strings are equal.
hash(s) == s

\* (df['src_ip'] + df['dest_ip'] + df['dest_port'].astype(str)).apply(hash)
triad_id(rec) ==
    hash(rec.src_ip \o rec.dest_ip \o ToString(dest_port_filled(rec)))

\* df.groupby('triad_id')['triad_id'].transform('count')
triad_freq(records, id) ==
    Cardinality({i \in DOMAIN records : triad_id(records[i]) = id})

\* The rows of df, in the order the records were delivered.
BuildFrame(records) ==
    [i \in DOMAIN records |->
        [src_ip     |-> records[i].src_ip,
         dest_ip    |-> records[i].dest_ip,
         dest_port  |-> dest_port_filled(records[i]),
         timestamp  |-> records[i].timestamp,
         flow       |-> records[i].flow,
         triad_id   |-> triad_id(records[i]),
         triad_freq |-> triad_freq(records, triad_id(records[i]))]]

\* The elements of a sequence, each once, in the order of first appearance.
RECURSIVE InOrder(_, _)
InOrder(s, firsts) ==
    IF firsts = {} THEN <<>>
    ELSE LET i == CHOOSE x \in firsts : \A y \in firsts : x <= y
         IN  <<s[i]>> \o InOrder(s, firsts \ {i})

Distinct(s) ==
    InOrder(s, {i \in DOMAIN s : \A j \in 1..(i - 1) : s[j] # s[i]})

\* df[df.triad_freq > self.MIN_OCCURANCES]
AboveThreshold(row) == row.triad_freq > MIN_OCCURANCES

\* df[df.triad_freq > self.MIN_OCCURANCES].groupby('triad_id').groups.keys()
HighFreq(df) ==
    LET sel == SelectSeq(df, AboveThreshold)
    IN  Distinct([i \in DOMAIN sel |-> sel[i].triad_id])

(***************************************************************************)
(* find_beacon: what a worker computes for one triad id.                   *)
(***************************************************************************)
\* self.flow_data[self.flow_data.triad_id == triad_id]
WorkOf(df, id) == SelectSeq(df, LAMBDA row : row.triad_id = id)

\* shift() leaves NaT in the first row and astype(int) turns NaT into the
\* smallest int64, -9223372036854775808 ns.  The model keeps the sign and the
\* sub-second part and scales the magnitude to the 32-bit integers of TLC, so
\* that it still lies beyond every timestamp: -2000000854 ms.
NaT == -2000000854

\* work['delta']: the difference, in whole seconds, between the timestamp of a
\* row and that of the row before it in work; the first row is paired with
\* NaT.  (The quotients are taken exactly.)
Deltas(work) ==
    [i \in DOMAIN work |->
        IF i = 1 THEN Trunc(work[1].timestamp - NaT, 1000)
        ELSE Trunc(work[i].timestamp - work[i - 1].timestamp, 1000)]

\* d.keys(): a dict lists its keys in an order of its own, the same for the
\* same dict in every process; the model lets it be ascending or descending.
RECURSIVE SortedKeys(_, _)
SortedKeys(S, order) ==
    IF S = {} THEN <<>>
    ELSE LET x == IF order = "asc"
                  THEN CHOOSE y \in S : \A z \in S : y <= z
                  ELSE CHOOSE y \in S : \A z \in S : y >= z
         IN  <<x>> \o SortedKeys(S \ {x}, order)

\* d = dict(work.delta.value_counts()); self.percent_grouping(d)
ScoreWork(work, W, order) ==
    LET d == value_counts(Deltas(work))
    IN  percent_grouping(d, SortedKeys(DOMAIN d, order), W)

\* if percent > self.MIN_PERCENT
Qualifies_ge(percent) == ~RatGT(<<MIN_PERCENT, 1>>, percent)

Qualifies(percent) == RatGT(percent, <<MIN_PERCENT, 1>>)

\* [SRC_IP, DEST_IP, DEST_PORT, BYTES_TOSERVER, SRC_DEGREE, PERCENT, WINDOW]
BeaconRow(work, window, percent) ==
    <<work[1].src_ip,
      work[1].dest_ip,
      ToString(work[1].dest_port),
      work[1].flow,
      Cardinality({work[i].dest_ip : i \in DOMAIN work}),
      ToString(RatInt(percent)),
      ToString(window)>>

\* A report or export that has not been made: no columns, no rows, no index.
NoReport == [columns |-> <<>>, rows |-> <<>>, index |-> {}]

NoLocals ==
    [triad_id |-> "", work |-> <<>>, d |-> EmptyDict, window |-> 0,
     percent |-> <<0, 1>>]

(***************************************************************************)
(* The pipeline: the main process and the workers.                         *)
(***************************************************************************)
\* The instance before __init__ calls run_query.
Constructed ==
    /\ main_pc = "query"
    /\ flow_data = <<>>
    /\ high_freq = <<>>
    /\ q_job = <<>>
    /\ unfinished = 0
    /\ l_df = 0
    /\ l_list = 0
    /\ beacon_list = <<>>
    /\ pc = [w \in Workers |-> "unstarted"]
    /\ loc = [w \in Workers |-> NoLocals]
    /\ taken = EmptyDict
    /\ report = NoReport
    /\ fields = <<"src_ip", "dest_ip", "dest_port", "bytes_toserver",
                  "dest_degree", "percent", "interval">>
    /\ csv_file = NoReport
    /\ history = <<>>
    /\ WINDOW = DEFAULT_WINDOW
    /\ key_order \in {"asc", "desc"}
    /\ ParkedEstimator

Init == resp \in Datasets /\ Constructed

\* __init__: self.flow_data = self.run_query()
RunQuery ==
    /\ main_pc = "query"
    /\ IF HasColumn(resp, "dest_port") /\ HasColumn(resp, "flow")
       THEN /\ flow_data' = BuildFrame(resp)
            /\ high_freq' = HighFreq(BuildFrame(resp))
            /\ main_pc' = "ready"
       ELSE /\ main_pc' = "raised"
            /\ UNCHANGED <<flow_data, high_freq>>
    /\ UNCHANGED <<resp, q_job, unfinished, l_df, l_list, beacon_list, pc,
                   loc, taken, report, fields, csv_file, history, WINDOW,
                   key_order, est_vars>>

\* find_beacons, up to the start of the workers: every candidate is put on
\* q_job, the shared list is created and the processes are started.  A key
\* that was put is on the queue for every worker that looks at it afterwards.
PutAndStart ==
    /\ q_job' = q_job \o high_freq
    /\ unfinished' = unfinished + Len(high_freq)
    /\ beacon_list' = <<>>
    /\ pc' = [w \in Workers |-> "loop"]
    /\ taken' = [k \in Range(high_freq) |-> <<>>]
    /\ main_pc' = "join"
    /\ UNCHANGED <<resp, flow_data, high_freq, l_df, l_list, loc, report,
                   fields, csv_file, history, WINDOW, key_order, est_vars>>

\* The first call of find_beacons on the instance.
StartScan == main_pc = "ready" /\ PutAndStart

\* A further call of find_beacons on the same instance, once the call before
\* it has returned.
CallAgain ==
    /\ main_pc = "returned"
    /\ Len(history) < MaxCalls
    /\ PutAndStart

\* while not q_job.empty()
CheckEmpty(w) ==
    /\ pc[w] = "loop"
    /\ IF q_job = <<>>
       THEN /\ pc' = [pc EXCEPT ![w] = "exit"]
            /\ loc' = [loc EXCEPT ![w] = NoLocals]
       ELSE /\ pc' = [pc EXCEPT ![w] = "get"]
            /\ UNCHANGED loc
    /\ UNCHANGED <<main_pc, resp, flow_data, high_freq, q_job, unfinished,
                   l_df, l_list, beacon_list, taken, report, fields, csv_file,
                   history, WINDOW, key_order, est_vars>>

\* triad_id = q_job.get(): blocks while the queue is empty
Get_peek(w) ==
    /\ pc[w] = "get"
    /\ q_job # <<>>
    /\ loc' = [loc EXCEPT ![w].triad_id = Head(q_job)]
    /\ taken' = [taken EXCEPT ![Head(q_job)] = Append(@, w)]
    /\ pc' = [pc EXCEPT ![w] = "acquire_df"]
    /\ UNCHANGED <<main_pc, resp, flow_data, high_freq, q_job, unfinished,
                   l_df, l_list, beacon_list, report, fields, csv_file,
                   history, WINDOW, key_order, est_vars>>

Get(w) ==
    /\ pc[w] = "get"
    /\ q_job # <<>>
    /\ loc' = [loc EXCEPT ![w].triad_id = Head(q_job)]
    /\ q_job' = Tail(q_job)
    /\ taken' = [taken EXCEPT ![Head(q_job)] = Append(@, w)]
    /\ pc' = [pc EXCEPT ![w] = "acquire_df"]
    /\ UNCHANGED <<main_pc, resp, flow_data, high_freq, unfinished, l_df,
                   l_list, beacon_list, report, fields, csv_file, history,
                   WINDOW, key_order, est_vars>>

\* self.l_df.acquire()
AcquireDf(w) ==
    /\ pc[w] = "acquire_df"
    /\ l_df = 0
    /\ l_df' = w
    /\ pc' = [pc EXCEPT ![w] = "read"]
    /\ UNCHANGED <<main_pc, resp, flow_data, high_freq, q_job, unfinished,
                   l_list, beacon_list, loc, taken, report, fields, csv_file,
                   history, WINDOW, key_order, est_vars>>

\* work = self.flow_data[...]; self.l_df.release()
ReadWork(w) ==
    /\ pc[w] = "read"
    /\ loc' = [loc EXCEPT ![w].work = WorkOf(flow_data, loc[w].triad_id)]
    /\ l_df' = 0
    /\ pc' = [pc EXCEPT ![w] = "score"]
    /\ UNCHANGED <<main_pc, resp, flow_data, high_freq, q_job, unfinished,
                   l_list, beacon_list, taken, report, fields, csv_file,
                   history, WINDOW, key_order, est_vars>>

\* work['delta'] = ...; d = ...; window, percent = self.percent_grouping(d);
\* if percent > self.MIN_PERCENT
Score(w) ==
    /\ pc[w] = "score"
    /\ LET out == ScoreWork(loc[w].work, WINDOW, key_order)
       IN  /\ loc' = [loc EXCEPT ![w].d = value_counts(Deltas(loc[w].work)),
                                 ![w].window = out[1],
                                 ![w].percent = out[2]]
           /\ pc' = [pc EXCEPT ![w] = IF Qualifies(out[2]) THEN "acquire_list"
                                      ELSE "task_done"]
    /\ UNCHANGED <<main_pc, resp, flow_data, high_freq, q_job, unfinished,
                   l_df, l_list, beacon_list, taken, report, fields, csv_file,
                   history, WINDOW, key_order, est_vars>>

\* PERCENT = ...; ...; self.l_list.acquire()
AcquireList_no_wait(w) ==
    /\ pc[w] = "acquire_list"
    /\ l_list' = w
    /\ pc' = [pc EXCEPT ![w] = "append"]
    /\ UNCHANGED <<main_pc, resp, flow_data, high_freq, q_job, unfinished,
                   l_df, beacon_list, loc, taken, report, fields, csv_file,
                   history, WINDOW, key_order, est_vars>>

AcquireList(w) ==
    /\ pc[w] = "acquire_list"
    /\ l_list = 0
    /\ l_list' = w
    /\ pc' = [pc EXCEPT ![w] = "append"]
    /\ UNCHANGED <<main_pc, resp, flow_data, high_freq, q_job, unfinished,
                   l_df, beacon_list, loc, taken, report, fields, csv_file,
                   history, WINDOW, key_order, est_vars>>

\* beacon_list.append([...])
AppendRow_overwrite(w) ==
    /\ pc[w] = "append"
    /\ beacon_list' = <<BeaconRow(loc[w].work, loc[w].window, loc[w].percent)>>
    /\ pc' = [pc EXCEPT ![w] = "release_list"]
    /\ UNCHANGED <<main_pc, resp, flow_data, high_freq, q_job, unfinished,
                   l_df, l_list, loc, taken, report, fields, csv_file,
                   history, WINDOW, key_order, est_vars>>

AppendRow(w) ==
    /\ pc[w] = "append"
    /\ beacon_list' = Append(beacon_list,
                             BeaconRow(loc[w].work, loc[w].window, loc[w].percent))
    /\ pc' = [pc EXCEPT ![w] = "release_list"]
    /\ UNCHANGED <<main_pc, resp, flow_data, high_freq, q_job, unfinished,
                   l_df, l_list, loc, taken, report, fields, csv_file,
                   history, WINDOW, key_order, est_vars>>

\* self.l_list.release()
ReleaseList(w) ==
    /\ pc[w] = "release_list"
    /\ l_list' = 0
    /\ pc' = [pc EXCEPT ![w] = "task_done"]
    /\ UNCHANGED <<main_pc, resp, flow_data, high_freq, q_job, unfinished,
                   l_df, beacon_list, loc, taken, report, fields, csv_file,
                   history, WINDOW, key_order, est_vars>>

\* q_job.task_done()
TaskDone(w) ==
    /\ pc[w] = "task_done"
    /\ unfinished' = unfinished - 1
    /\ pc' = [pc EXCEPT ![w] = "loop"]
    /\ UNCHANGED <<main_pc, resp, flow_data, high_freq, q_job, l_df, l_list,
                   beacon_list, loc, taken, report, fields, csv_file, history,
                   WINDOW, key_order, est_vars>>

(***************************************************************************)
(* find_beacons after the scan: the table built from beacon_list and the   *)
(* report made of it.  A table is a sequence of rows, each a function from *)
(* column name to value, together with the list of its columns.            *)
(***************************************************************************)
IndexOf(s, x) == CHOOSE i \in DOMAIN s : s[i] = x /\ \A j \in 1..(i - 1) : s[j] # x

\* list.insert(i, x)
InsertAt(s, i, x) == SubSeq(s, 1, i - 1) \o <<x>> \o SubSeq(s, i, Len(s))

DigitValue(c) ==
    CASE c = "0" -> 0 [] c = "1" -> 1 [] c = "2" -> 2 [] c = "3" -> 3
      [] c = "4" -> 4 [] c = "5" -> 5 [] c = "6" -> 6 [] c = "7" -> 7
      [] c = "8" -> 8 [] c = "9" -> 9

\* astype(int) of a column of decimal strings: the value of the first n digits
RECURSIVE StrToInt(_, _)
StrToInt(str, n) ==
    IF n = 0 THEN 0
    ELSE 10 * StrToInt(str, n - 1) + DigitValue(SubSeq(str, n, n))

\* pd.DataFrame(beacon_list, columns=self.fields)
Frame(rows, cols) ==
    [i \in DOMAIN rows |-> [c \in Range(cols) |-> rows[i][IndexOf(cols, c)]]]

\* beacon_df.groupby('dest_ip')['dest_ip'].transform('count')
DestDegree_scan_time(rows, i) == rows[i]["dest_degree"]

DestDegree(rows, i) ==
    Cardinality({j \in DOMAIN rows : rows[j]["dest_ip"] = rows[i]["dest_ip"]})

\* beacon_df.interval = beacon_df.interval.astype(int);
\* beacon_df['dest_degree'] = ...
WithDegree(rows) ==
    [i \in DOMAIN rows |->
        [rows[i] EXCEPT !["interval"] = StrToInt(@, Len(@)),
                        !["dest_degree"] = DestDegree(rows, i)]]

\* WhoisLookup.get_name_by_ip (flare.tools.whoisip): a name for an address,
\* possibly empty.
get_name_by_ip(ip) ==
    CASE ip \in {"8.8.8.8", "8.8.4.4"} -> "GOOGLE"
      [] ip \in {"1.1.1.1"}            -> "CLOUDFLARENET"
      [] OTHER                         -> ""

\* flare.tools.iputils
private_check(ip) == ip \in {"10.0.0.5"}
multicast_check(ip) == ip \in {"224.0.0.251"}
reserved_check(ip) == ip \in {"240.0.0.1"}

\* beacon_df['src_whois'] = ...; beacon_df['dest_whois'] = ...
WithWhois(rows) ==
    [i \in DOMAIN rows |->
        rows[i] @@ [src_whois  |-> get_name_by_ip(rows[i]["src_ip"]),
                    dest_whois |-> get_name_by_ip(rows[i]["dest_ip"])]]

\* the rows kept when focus_outbound is set
Outbound(row) ==
    /\ private_check(row["src_ip"])
    /\ ~multicast_check(row["dest_ip"])
    /\ ~reserved_check(row["dest_ip"])
    /\ ~private_check(row["dest_ip"])

\* A null among the values of a row: only bytes_toserver can be None.
IsNull(row, c) == c = "bytes_toserver" /\ row[c] = None

GroupKey(row, by) == [n \in DOMAIN by |-> row[by[n]]]

\* beacon_df.groupby(self.fields).size(): the number of rows of every distinct
\* tuple of the grouped fields; groupby leaves out the rows that have a null
\* among these fields.
GroupSize(rows, by) ==
    LET kept == {i \in DOMAIN rows : \A n \in DOMAIN by : ~IsNull(rows[i], by[n])}
    IN  [k \in {GroupKey(rows[i], by) : i \in kept} |->
            Cardinality({i \in kept : GroupKey(rows[i], by) = k})]

\* pd.DataFrame(size) has the sizes as its one column, named 0, and
\* drop(0, axis=1) removes that column: what is left is the index, one entry
\* for every distinct tuple of the grouped fields.
GroupIndex(rows, by) == DOMAIN GroupSize(rows, by)

\* What a call of find_beacons with these flags computes from beacon_list and
\* self.fields: whether it raises, the new self.fields, what to_csv writes
\* (NoReport when nothing is written) and the frame it returns.
Report(group, focus_outbound, whois, csv_out) ==
    IF beacon_list # <<>> /\ Len(fields) # Len(beacon_list[1])
    THEN \* pd.DataFrame: the rows do not have as many values as there are
         \* columns
         [raised |-> TRUE, fields |-> fields, csv |-> NoReport,
          frame |-> NoReport]
    ELSE LET table    == WithDegree(Frame(beacon_list, fields))
             enriched == IF whois THEN WithWhois(table) ELSE table
             columns  == IF whois
                         THEN fields \o <<"src_whois", "dest_whois">>
                         ELSE fields
             shown    == IF focus_outbound THEN SelectSeq(enriched, Outbound)
                         ELSE enriched
             export   == IF csv_out
                         THEN [columns |-> columns, rows |-> shown,
                               index |-> {}]
                         ELSE NoReport
             by       == InsertAt(fields, IndexOf(fields, "dest_ip"),
                                  "dest_whois")
         IN  IF ~group
             THEN [raised |-> FALSE, fields |-> fields, csv |-> export,
                   frame |-> [columns |-> columns, rows |-> shown,
                              index |-> {}]]
             ELSE IF Range(by) \subseteq Range(columns)
             THEN [raised |-> FALSE, fields |-> by, csv |-> export,
                   frame |-> [columns |-> <<>>, rows |-> <<>>,
                              index |-> GroupIndex(shown, by)]]
             ELSE \* KeyError: 'dest_whois'
                  [raised |-> TRUE, fields |-> by, csv |-> export,
                   frame |-> NoReport]

\* find_beacons, from the joins on: p.join() returns for every worker once it
\* has exited; then the table is built and the report returned.  The flags
\* are the arguments of the call; nothing reads them before this point.
JoinAndReport(group, focus_outbound, whois, csv_out) ==
    /\ main_pc = "join"
    /\ \A w \in Workers : pc[w] = "exit"
    /\ LET out == Report(group, focus_outbound, whois, csv_out)
       IN  /\ main_pc' = IF out.raised THEN "raised" ELSE "returned"
           /\ fields' = out.fields
           /\ csv_file' = IF out.csv = NoReport THEN csv_file ELSE out.csv
           /\ report' = IF out.raised THEN report ELSE out.frame
           /\ history' = Append(history,
                  [group |-> group, focus_outbound |-> focus_outbound,
                   whois |-> whois, csv_out |-> csv_out,
                   raised |-> out.raised, report |-> out.frame])
    /\ UNCHANGED <<resp, flow_data, high_freq, q_job, unfinished, l_df,
                   l_list, beacon_list, pc, loc, taken, WINDOW, key_order,
                   est_vars>>

Worker(w) ==
    \/ CheckEmpty(w)
    \/ Get(w)
    \/ AcquireDf(w)
    \/ ReadWork(w)
    \/ Score(w)
    \/ AcquireList(w)
    \/ AppendRow(w)
    \/ ReleaseList(w)
    \/ TaskDone(w)

Next ==
    \/ RunQuery
    \/ StartScan
    \/ \E w \in Workers : Worker(w)
    \/ \E group, focus_outbound, whois, csv_out \in BOOLEAN :
          JoinAndReport(group, focus_outbound, whois, csv_out)

Spec == Init /\ [][Next]_vars

\* RepeatSpec: the pipeline with a client that calls find_beacons up to
\* MaxCalls times on one instance.
RepeatInit == resp \in RepeatDatasets /\ Constructed

RepeatNext == Next \/ CallAgain

RepeatSpec == RepeatInit /\ [][RepeatNext]_vars

\* ---- properties of the pipeline (checked under Spec) ----

Indexed == main_pc \in {"ready", "join", "returned"}
Scanning == main_pc \in {"join", "returned"}
AllExited == Scanning /\ \A w \in Workers : pc[w] = "exit"

Triads == {T1, T2, T3, T4, T5}

SameTriad(a, b) ==
    /\ a.src_ip = b.src_ip
    /\ a.dest_ip = b.dest_ip
    /\ dest_port_filled(a) = dest_port_filled(b)

\* The number of flow events of triad t that the data source returned.
EventCount(t) == Cardinality({i \in DOMAIN resp : SameTriad(resp[i], t)})

Occurrences(s, x) == Cardinality({i \in DOMAIN s : s[i] = x})

SeqToBag(s) == [x \in Range(s) |-> Occurrences(s, x)]

\* The rows one worker appends when it scores keys[1], ..., keys[n] in turn.
RECURSIVE SequentialScan(_, _)
SequentialScan(keys, n) ==
    IF n = 0 THEN <<>>
    ELSE LET work == WorkOf(flow_data, keys[n])
             out  == ScoreWork(work, WINDOW, key_order)
         IN  IF RatGT(out[2], <<MIN_PERCENT, 1>>)
             THEN Append(SequentialScan(keys, n - 1), BeaconRow(work, out[1], out[2]))
             ELSE SequentialScan(keys, n - 1)

\* C1: find_beacons terminates: no worker is left blocked in q_job.get() on a
\* drained queue.  (Nothing is put on q_job once the workers run, so a worker
\* in get() on the empty queue never leaves it, and its join never returns.)
C1_No_Worker_Blocked_On_Drained_Queue ==
    \A w \in Workers : ~(pc[w] = "get" /\ q_job = <<>>)

C5_Triad_Id_Iff_Same_Triad ==
    Indexed =>
        \A i, j \in DOMAIN flow_data :
            (flow_data[i].triad_id = flow_data[j].triad_id)
                <=> SameTriad(flow_data[i], flow_data[j])

\* C6: a triad is in high_freq if and only if the number of its flow events
\* is strictly greater than MIN_OCCURANCES, and only members of high_freq are
\* ever put on q_job or taken from it.
C6_Candidate_Iff_Above_Min_Occurances ==
    Indexed =>
        /\ \A t \in Triads :
              EventCount(t) > 0 =>
                  ((triad_id(t) \in Range(high_freq))
                      <=> (EventCount(t) > MIN_OCCURANCES))
        /\ Range(q_job) \subseteq Range(high_freq)
        /\ \A w \in Workers :
              loc[w].triad_id # "" => loc[w].triad_id \in Range(high_freq)

\* C7: when the data source returns no events, building the index and
\* running find_beacons raise nothing, and the report is empty.
C7_Empty_Source_No_Error ==
    resp = <<>> =>
        /\ main_pc # "raised"
        /\ high_freq = <<>>
        /\ report = NoReport

LastCall == history[Len(history)]

\* Row i of beacon_list is the candidate of this src_ip, dest_ip, dest_port.
IsCandidate(i, src_ip, dest_ip, dest_port) ==
    /\ beacon_list[i][1] = src_ip
    /\ beacon_list[i][2] = dest_ip
    /\ beacon_list[i][3] = dest_port

\* C11: with group set, the report that find_beacons returns has, for every
\* distinct tuple of the report fields, a row with its count, and no
\* ungrouped row is lost: every candidate of the scan (nothing being filtered)
\* is in one of the groups, one whose bytes_toserver is null included.
C11_Grouping_Keeps_Counts_And_Rows ==
    (main_pc = "returned" /\ LastCall.group) =>
        /\ report.columns # <<>>
        /\ Len(report.rows) = Cardinality(report.index)
        /\ ~LastCall.focus_outbound =>
              \A i \in DOMAIN beacon_list :
                  \E k \in report.index :
                      IsCandidate(i, k[1], k[3], k[4])

\* C12: when csv_out is given, every candidate of the scan is in the export,
\* whether or not focus_outbound is set.
C12_Export_Has_Every_Candidate ==
    (history # <<>> /\ LastCall.csv_out) =>
        \A i \in DOMAIN beacon_list :
            \E j \in DOMAIN csv_file.rows :
                IsCandidate(i, csv_file.rows[j]["src_ip"],
                            csv_file.rows[j]["dest_ip"],
                            csv_file.rows[j]["dest_port"])

\* C13: in the table find_beacons builds (the ungrouped report and the
\* export), the dest_degree of every row is the number of rows of the
\* complete beacon_list that have its dest_ip, whatever was stored in that
\* place at scan time and whatever the outbound filter removes.
C13_Dest_Degree_Counts_All_Candidates ==
    history # <<>> =>
        \A t \in {csv_file.rows} \cup
                 (IF LastCall.group THEN {} ELSE {LastCall.report.rows}) :
            \A i \in DOMAIN t :
                t[i]["dest_degree"] =
                    Cardinality({j \in DOMAIN beacon_list :
                                    beacon_list[j][2] = t[i]["dest_ip"]})

C13_Witness ==
    /\ main_pc = "returned"
    /\ ~LastCall.group
    /\ LastCall.csv_out
    /\ Len(beacon_list) = 3
    /\ \E i \in DOMAIN report.rows :
          /\ report.rows[i]["dest_degree"] = 2
          /\ \E j \in DOMAIN beacon_list :
                /\ beacon_list[j][2] = report.rows[i]["dest_ip"]
                /\ beacon_list[j][5] = 1
    /\ \E i \in DOMAIN report.rows : report.rows[i]["dest_degree"] = 1

\* ---- properties of the scan (checked under Spec) ----

\* Worker w has scored the triad it took and not yet finished with it.
Scored(w) == pc[w] \in {"acquire_list", "append", "release_list", "task_done"}

\* The timestamps of the rows of work, in increasing order.
TimesInOrder(work) ==
    SortedKeys({work[i].timestamp : i \in DOMAIN work}, "asc")

\* The whole seconds between every event and the one before it in time.
ConsecutiveDeltas(work) ==
    LET ts == TimesInOrder(work)
    IN  [i \in 1..(Len(ts) - 1) |-> (ts[i + 1] - ts[i]) \div 1000]

\* C15: the histogram d that a worker hands to percent_grouping for a triad
\* of n events counts n - 1 deltas, none negative: the whole seconds between
\* the events that are consecutive in time, whatever the order in which the
\* data source delivered them.
C15_Deltas_Between_Consecutive_Events ==
    \A w \in Workers :
        Scored(w) =>
            /\ SumOver(loc[w].d, DOMAIN loc[w].d) = Len(loc[w].work) - 1
            /\ \A k \in DOMAIN loc[w].d : k >= 0
            /\ loc[w].d = value_counts(ConsecutiveDeltas(loc[w].work))

\* Worker w is between l_list.acquire() and l_list.release().
InAppend(w) == pc[w] \in {"append", "release_list"}

\* C16: at most one worker is between acquiring and releasing l_list, a
\* worker that appends holds the lock, and when all workers have exited
\* beacon_list has as many rows as there are candidates whose percent exceeds
\* MIN_PERCENT.
C16_Appends_Mutually_Exclusive ==
    /\ \A v, w \in Workers : (InAppend(v) /\ InAppend(w)) => v = w
    /\ \A w \in Workers : InAppend(w) <=> l_list = w
    /\ AllExited =>
          Len(beacon_list) =
              Cardinality({k \in Range(high_freq) :
                  RatGT(ScoreWork(WorkOf(flow_data, k), WINDOW, key_order)[2],
                        <<MIN_PERCENT, 1>>)})

C16_Witness ==
    /\ pc[1] = "acquire_list"
    /\ pc[2] = "append"
    /\ l_list = 2
    /\ beacon_list # <<>>

\* The dest_ip values that the flow data holds for a src_ip.
Contacted(src_ip) ==
    {resp[j].dest_ip : j \in {n \in DOMAIN resp : resp[n].src_ip = src_ip}}

\* C17: the src_degree that a worker stores in the row of a candidate is the
\* number of distinct dest_ip values that the src_ip of the candidate
\* contacted in the flow data.
C17_Src_Degree_Counts_All_Destinations ==
    \A i \in DOMAIN beacon_list :
        beacon_list[i][5] = Cardinality(Contacted(beacon_list[i][1]))

\* C19: find_beacons returns a report, without raising, for every combination
\* of group, focus_outbound, whois and csv_out.
C19_Every_Flag_Combination_Returns ==
    \A n \in DOMAIN history : ~history[n].raised

\* ---- properties of repeated calls (checked under RepeatSpec) ----

\* The columns of the candidate table.
CandidateColumns ==
    <<"src_ip", "dest_ip", "dest_port", "bytes_toserver", "dest_degree",
      "percent", "interval">>

SameFlags(a, b) ==
    /\ a.group = b.group
    /\ a.focus_outbound = b.focus_outbound
    /\ a.whois = b.whois
    /\ a.csv_out = b.csv_out

\* C18: calls of find_beacons leave self.fields and high_freq as run_query
\* and __init__ set them; a later call with the flags of the first call ends
\* as the first did, with the same report.
C18_Calls_Leave_Instance_Unchanged ==
    /\ Indexed =>
          /\ fields = CandidateColumns
          /\ high_freq = HighFreq(flow_data)
    /\ \A n \in DOMAIN history :
          SameFlags(history[n], history[1]) =>
              /\ history[n].raised = history[1].raised
              /\ history[n].report = history[1].report

====
